---- MODULE Spec2Model ----
(***************************************************************************)
(* The SSH backend's credential issuance path, creds/<role>                *)
(* (builtin/logical/ssh/path_creds_create.go).                             *)
(*                                                                         *)
(* Every request is served by one run of pathCredsCreateWrite.  A run of   *)
(* the model serves two requests, concurrently (Spec) or one after the     *)
(* other (SpecSeq); a step is the code between two calls on a collaborator *)
(* (the storage backend, the target machine), so that two requests         *)
(* interleave exactly where the code lets them.  Any call on a             *)
(* collaborator may fail.                                                  *)
(***************************************************************************)
EXTENDS Integers, Sequences, FiniteSets, TLC

\* ------------------------------------------------------------------ bounds
MaxUUID == 2          \* size of the space uuid.GenerateUUID draws from
MaxAttempts == 3      \* the candidates of one request are counted up to here

\* The requests of a run: each is served once, by its own handler.
Procs == {"p1", "p2"}

\* ------------------------------------------------------- program constants
KeyTypeOTP == "otp"
KeyTypeDynamic == "dynamic"
SecretOTPType == "secret_otp_type"
SecretDynamicKeyType == "secret_dynamic_key_type"
DefaultLease == 10         \* 10 * time.Minute, in minutes
DefaultLeaseGrace == 2     \* 2 * time.Minute, in minutes

\* --------------------------------------------------------------- net, salt
\* net.ParseIP on the request texts of the model: an address is its four
\* octets, an unparsable text gives nil (<<>>).  The IPv4-mapped IPv6 text
\* parses to the same address as the dotted one.
ParseIP(raw) ==
    CASE raw = "10.0.0.5"        -> <<10, 0, 0, 5>>
      [] raw = "::ffff:10.0.0.5" -> <<10, 0, 0, 5>>
      [] raw = "192.168.1.1"     -> <<192, 168, 1, 1>>
      [] OTHER                   -> <<>>

\* net.IP.String: the canonical (dotted) text of an address.
IPString(addr) ==
    CASE addr = <<10, 0, 0, 5>>    -> "10.0.0.5"
      [] addr = <<192, 168, 1, 1>> -> "192.168.1.1"
      [] OTHER                     -> "<nil>"

\* net.ParseCIDR on the CIDR texts of the model: base address and prefix
\* length, or nil (<<>>) for a malformed entry.
ParseCIDR(item) ==
    CASE item = "10.0.0.0/24"    -> <<[IP |-> <<10, 0, 0, 0>>, Bits |-> 24]>>
      [] item = "192.168.0.0/16" -> <<[IP |-> <<192, 168, 0, 0>>, Bits |-> 16]>>
      [] OTHER                   -> <<>>

Pow2(n) == IF n <= 0 THEN 1 ELSE
           IF n = 1 THEN 2 ELSE
           IF n = 2 THEN 4 ELSE
           IF n = 3 THEN 8 ELSE
           IF n = 4 THEN 16 ELSE
           IF n = 5 THEN 32 ELSE
           IF n = 6 THEN 64 ELSE
           IF n = 7 THEN 128 ELSE 256

\* Number of leading bits of octet i (1..4) a prefix of length bits covers.
MaskBits(bits, i) ==
    LET left == bits - 8 * (i - 1)
    IN  IF left <= 0 THEN 0 ELSE IF left >= 8 THEN 8 ELSE left

\* net.IPNet.Contains: the address agrees with the base on the masked bits.
Contains(ipnet, addr) ==
    \A i \in 1..4 :
        addr[i] \div Pow2(8 - MaskBits(ipnet.Bits, i))
            = ipnet.IP[i] \div Pow2(8 - MaskBits(ipnet.Bits, i))

\* Whether the address written ip lies in one of the well-formed blocks of
\* the list.
InSomeBlock(ip, cidrList) ==
    \E i \in 1..Len(cidrList) :
        /\ ParseCIDR(cidrList[i]) # <<>>
        /\ Contains(ParseCIDR(cidrList[i])[1], ParseIP(ip))

HasMalformed(cidrList) ==
    \E i \in 1..Len(cidrList) : ParseCIDR(cidrList[i]) = <<>>

\* cidrContainsIP(ip, role.CIDRList): the (matched, err) results it may
\* give.  A malformed entry is an error; whether a match in another block
\* of the same list is reported before the malformed entry is looked at is
\* left open.
cidrContainsIP(ip, cidrList) ==
    IF HasMalformed(cidrList)
    THEN {[matched |-> FALSE, err |-> TRUE]}
         \cup IF InSomeBlock(ip, cidrList)
              THEN {[matched |-> TRUE, err |-> FALSE]} ELSE {}
    ELSE {[matched |-> InSomeBlock(ip, cidrList), err |-> FALSE]}

\* uuid.GenerateUUID draws from UUIDs; a token is tagged by what it is.
UUIDs == {<<"uuid", n>> : n \in 1..MaxUUID}

\* b.salt.SaltID: the one-way salted form of a token, never the token.
SaltID(str) == <<"salted", str[2]>>

\* GenerateSaltedOTP that hands the token out as its own salted form.
GenerateSaltedOTP_Unsalted(str) == [otp |-> str, otpSalted |-> str]

\* Lines 180-183: the token uuid.GenerateUUID gave and its salted form.
GenerateSaltedOTP(str) == [otp |-> str, otpSalted |-> SaltID(str)]

\* fmt.Sprintf("%s.sh", publicKeyFileName)
ScriptFileName(publicKeyFileName) == <<"salted.sh", publicKeyFileName[2]>>

\* ---------------------------------------------------------------- storage
Usernames == {"", "alice"}
RoleNames == {"", "web"}
RawIPs == {"", "bogus", "10.0.0.5", "::ffff:10.0.0.5", "192.168.1.1"}

CIDRLists == { <<"10.0.0.0/24">>,
               <<"10.0.0.0/24", "192.168.0.0/16">>,
               <<"garbage", "10.0.0.0/24">> }

\* type sshRole
MakeRole(defaultUser, cidrList, keyType, keyName) ==
    [ DefaultUser |-> defaultUser, CIDRList |-> cidrList, KeyType |-> keyType,
      KeyName |-> keyName, AdminUser |-> "admin", Port |-> 22,
      KeyBits |-> 2048, InstallScript |-> "install.sh" ]

\* The role records storage may hold under the name "web".
RoleConfigs ==
    { MakeRole(u, c, KeyTypeOTP, "") : u \in {"", "deploy"}, c \in CIDRLists }
    \cup { MakeRole(u, c, KeyTypeDynamic, "hk") :
               u \in {"", "deploy"}, c \in CIDRLists }
    \cup { MakeRole("deploy", <<"10.0.0.0/24">>, KeyTypeDynamic, k) :
               k \in {"gone", "junk"} }
    \cup { MakeRole(u, <<"10.0.0.0/24">>, "ca", "") : u \in {"", "deploy"} }

\* The keys/<name> entries: "hk" holds a host key, "junk" holds bytes that
\* do not decode, "gone" is absent.
KeyEntries == [ hk |-> [Decodes |-> TRUE, Key |-> "host-private-key"],
                junk |-> [Decodes |-> FALSE, Key |-> ""] ]

\* The config/lease entry: absent (<<>>) or a policy.
LeaseConfigs == { <<>>, <<[Lease |-> 30, LeaseMax |-> 60]>> }

\* Storage.Get of a map-like store: the entry as a 0- or 1-element sequence.
StorageGet(store, key) ==
    IF key \in DOMAIN store THEN <<store[key]>> ELSE <<>>

\* Storage.Put: the entry is written under its key, whatever was there.
StoragePut(store, key, value) ==
    [k \in DOMAIN store \cup {key} |-> IF k = key THEN value ELSE store[k]]


\* b.getRole(req.Storage, roleName): (role, err); a failed read gives no role.
getRole(store, roleName, fail) ==
    IF fail THEN [role |-> <<>>, err |-> TRUE]
    ELSE [role |-> StorageGet(store, roleName), err |-> FALSE]

\* b.Lease(req.Storage): (lease, err); a failed lookup gives no lease.
Lease(store, fail) ==
    IF fail THEN [lease |-> <<>>, err |-> TRUE]
    ELSE [lease |-> store, err |-> FALSE]

\* -------------------------------------------------------------- responses
\* logical.ErrorResponse(text)
ErrorResponse(text) ==
    [IsError |-> TRUE, Data |-> [error |-> text], Secret |-> <<>>]

\* b.Secret(type).Response(data, internal): the lease fields start at zero.
SecretResponse(type, data, internal) ==
    [ IsError |-> FALSE, Data |-> data,
      Secret |-> <<[ Type |-> type, InternalData |-> internal,
                     Lease |-> 0, LeaseGracePeriod |-> 0 ]>> ]

\* type sshOTP
sshOTP(username, ip) == [Username |-> username, IP |-> ip]

\* ------------------------------------------------------------------ state
VARIABLES
    roleStore,       \* roles/<name>: the stored role records
    keyStore,        \* keys/<name>: the stored host keys
    leaseStore,      \* config/lease: the stored lease policy, if any
    otpStore,        \* otp/<salted>: the stored sshOTP entries
    targetFiles,     \* files scpUpload has left on target machines
    authorizedKeys,  \* keys installPublicKeyInTarget has installed
    pc,              \* where each handler stands
    frame,           \* the local variables of each handler's request
    calls            \* the collaborator calls of each handler's request

vars == << roleStore, keyStore, leaseStore, otpStore, targetFiles,
           authorizedKeys, pc, frame, calls >>

stores == << roleStore, keyStore, leaseStore >>
target == << targetFiles, authorizedKeys >>

\* The locals of pathCredsCreateWrite and its callees before the request is
\* read; nil is <<>>, a nil error is FALSE or "".  attempts and tick are no
\* variables of the code: they tell the candidates GenerateOTPCredential has
\* drawn while its loop is under way, attempts by their number (counted no
\* further than MaxAttempts), tick by changing at each.
Frame0 ==
    [ d |-> [role |-> "", username |-> "", ip |-> ""],
      username |-> "", role |-> <<>>, ip |-> "",
      otp |-> <<>>, otpSalted |-> <<>>, entry |-> <<>>, err |-> FALSE,
      hostKey |-> <<>>, dynamicPublicKey |-> "", dynamicPrivateKey |-> "",
      publicKeyFileName |-> <<>>, lease |-> <<>>,
      attempts |-> 0, tick |-> FALSE,
      result |-> <<>>, reterr |-> "" ]

EmptyStore == [k \in {} |-> <<>>]

Init ==
    /\ roleStore \in {EmptyStore} \cup {[web |-> r] : r \in RoleConfigs}
    /\ keyStore = KeyEntries
    /\ leaseStore \in LeaseConfigs
    /\ otpStore = EmptyStore
    /\ targetFiles = {}
    /\ authorizedKeys = {}
    /\ pc = [p \in Procs |-> "idle"]
    /\ frame = [p \in Procs |-> Frame0]
    /\ calls = [p \in Procs |-> <<>>]

\* A call on a collaborator, with its outcome, is added to the request's
\* record; a retry of the same call with the same outcome is recorded once.
LogCall(log, name, outcome) ==
    IF Len(log) > 0 /\ log[Len(log)] = <<name, outcome>>
    THEN log ELSE Append(log, <<name, outcome>>)

\* The handler returns (resp, err).
Return(f, resp, err) == [f EXCEPT !.result = resp, !.reterr = err]


\* ------------------------------------------------- pathCredsCreateWrite
\* MissingField without the check of lines 53-55.
MissingField_NoIPCheck(d) ==
    IF d.role = "" THEN "Missing role" ELSE ""

\* Lines 45-55: the checks made before any collaborator is called; "" when
\* both fields are there.
MissingField(d) ==
    IF d.role = "" THEN "Missing role"
    ELSE IF d.ip = "" THEN "Missing ip"
    ELSE ""

\* EffectiveUsername with the role's default user put before the request's.
EffectiveUsername_RolePreferred(username, role) ==
    IF role.DefaultUser # "" THEN role.DefaultUser ELSE username

\* Lines 66-71: the username the credential is issued for; "" when neither
\* the request nor the role names one.
EffectiveUsername(username, role) ==
    IF username = "" THEN role.DefaultUser ELSE username

\* ValidationError with the address parsed (lines 74-77) before the
\* username is settled (lines 66-71).
ValidationError_IPBeforeUsername(d, roleRes, cidr) ==
    IF roleRes.err
    THEN [internal |-> TRUE, msg |-> "error retrieving role"]
    ELSE IF roleRes.role = <<>>
    THEN [internal |-> FALSE, msg |-> "Role not found"]
    ELSE IF ParseIP(d.ip) = <<>>
    THEN [internal |-> FALSE, msg |-> "Invalid IP"]
    ELSE IF EffectiveUsername(d.username, roleRes.role[1]) = ""
    THEN [internal |-> FALSE,
          msg |-> "No default username registered. Use 'username' option"]
    ELSE IF cidr.err
    THEN [internal |-> FALSE, msg |-> "Error validating IP"]
    ELSE IF ~cidr.matched
    THEN [internal |-> FALSE, msg |-> "IP does not belong to role"]
    ELSE [internal |-> FALSE, msg |-> ""]

\* ValidationError without the check of line 83: an address outside the
\* role's blocks passes.
ValidationError_NoMatchCheck(d, roleRes, cidr) ==
    IF roleRes.err
    THEN [internal |-> TRUE, msg |-> "error retrieving role"]
    ELSE IF roleRes.role = <<>>
    THEN [internal |-> FALSE, msg |-> "Role not found"]
    ELSE IF EffectiveUsername(d.username, roleRes.role[1]) = ""
    THEN [internal |-> FALSE,
          msg |-> "No default username registered. Use 'username' option"]
    ELSE IF ParseIP(d.ip) = <<>>
    THEN [internal |-> FALSE, msg |-> "Invalid IP"]
    ELSE IF cidr.err
    THEN [internal |-> FALSE, msg |-> "Error validating IP"]
    ELSE [internal |-> FALSE, msg |-> ""]

\* Lines 57-85: the first check the request fails, in the code's order, or
\* msg = "" when it passes them all.  internal tells a Go error (nil
\* response) from an error response.
ValidationError(d, roleRes, cidr) ==
    IF roleRes.err
    THEN [internal |-> TRUE, msg |-> "error retrieving role"]
    ELSE IF roleRes.role = <<>>
    THEN [internal |-> FALSE, msg |-> "Role not found"]
    ELSE IF EffectiveUsername(d.username, roleRes.role[1]) = ""
    THEN [internal |-> FALSE,
          msg |-> "No default username registered. Use 'username' option"]
    ELSE IF ParseIP(d.ip) = <<>>
    THEN [internal |-> FALSE, msg |-> "Invalid IP"]
    ELSE IF cidr.err
    THEN [internal |-> FALSE, msg |-> "Error validating IP"]
    ELSE IF ~cidr.matched
    THEN [internal |-> FALSE, msg |-> "IP does not belong to role"]
    ELSE [internal |-> FALSE, msg |-> ""]

\* CredentialBranch without the else of lines 116-118: a key type that is
\* not dynamic is served as otp.
CredentialBranch_UnknownAsOTP(keyType) ==
    IF keyType = KeyTypeDynamic THEN "dynGetKey" ELSE "otpGet"

\* CredentialBranch with the tests of lines 88 and 99 taken for each other.
CredentialBranch_Swapped(keyType) ==
    IF keyType = KeyTypeDynamic THEN "otpGet"
    ELSE IF keyType = KeyTypeOTP THEN "dynGetKey"
    ELSE "unknown"

\* Lines 88, 99, 116: where the request goes on the role's key type.
CredentialBranch(keyType) ==
    IF keyType = KeyTypeOTP THEN "otpGet"
    ELSE IF keyType = KeyTypeDynamic THEN "dynGetKey"
    ELSE "unknown"

\* The results cidrContainsIP may give for this request; it is called only
\* with a role and a parsed address (line 79).
CidrResults(ipRaw, role) ==
    IF role = <<>> \/ ParseIP(ipRaw) = <<>>
    THEN {[matched |-> FALSE, err |-> FALSE]}
    ELSE cidrContainsIP(IPString(ParseIP(ipRaw)), role[1].CIDRList)

Outcome(err, entry) ==
    IF err THEN "err" ELSE IF entry = <<>> THEN "nil" ELSE "ok"

\* Lines 45-55: a request arrives; its fields are read and checked.
ReadFields(p) ==
    /\ pc[p] = "idle"
    /\ calls' = [calls EXCEPT ![p] = <<>>]
    /\ \E roleName \in RoleNames, username \in Usernames, ipRaw \in RawIPs :
         LET d == [role |-> roleName, username |-> username, ip |-> ipRaw]
             f == [Frame0 EXCEPT !.d = d, !.username = username]
         IN  IF MissingField(d) # ""
             THEN /\ frame' = [frame EXCEPT ![p] =
                        Return(f, <<ErrorResponse(MissingField(d))>>, "")]
                  /\ pc' = [pc EXCEPT ![p] = "done"]
             ELSE /\ frame' = [frame EXCEPT ![p] = f]
                  /\ pc' = [pc EXCEPT ![p] = "getRole"]
    /\ UNCHANGED << stores, otpStore, target >>

\* Lines 57-118: the role is fetched, the request validated against it and
\* the kind of credential chosen.
Validate(p) ==
    /\ pc[p] = "getRole"
    /\ \E fail \in BOOLEAN :
         LET f == frame[p]
             rr == getRole(roleStore, f.d.role, fail)
         IN  \E cidr \in CidrResults(f.d.ip, rr.role) :
               LET verr == ValidationError(f.d, rr, cidr)
                   userOK == /\ rr.role # <<>>
                             /\ EffectiveUsername(f.d.username, rr.role[1]) # ""
                   ipOK == userOK /\ ParseIP(f.d.ip) # <<>>
                   g == [f EXCEPT
                           !.role = rr.role,
                           !.username = IF userOK
                                        THEN EffectiveUsername(@, rr.role[1])
                                        ELSE @,
                           !.ip = IF ipOK THEN IPString(ParseIP(f.d.ip))
                                  ELSE @]
               IN  /\ calls' = [calls EXCEPT ![p] =
                          LogCall(@, "getRole", Outcome(rr.err, rr.role))]
                   /\ IF verr.msg # ""
                      THEN /\ frame' = [frame EXCEPT ![p] =
                                 IF verr.internal
                                 THEN Return(g, <<>>, verr.msg)
                                 ELSE Return(g, <<ErrorResponse(verr.msg)>>, "")]
                           /\ pc' = [pc EXCEPT ![p] = "done"]
                      ELSE IF CredentialBranch(g.role[1].KeyType) = "unknown"
                      THEN /\ frame' = [frame EXCEPT ![p] =
                                 Return(g, <<>>, "key type unknown")]
                           /\ pc' = [pc EXCEPT ![p] = "done"]
                      ELSE /\ frame' = [frame EXCEPT ![p] = g]
                           /\ pc' = [pc EXCEPT ![p] =
                                  CredentialBranch(g.role[1].KeyType)]
    /\ UNCHANGED << stores, otpStore, target >>

\* ------------------------------------------------ GenerateOTPCredential
\* Line 190: the condition of the free-key loop.
LoopCond(err, entry) == ~err /\ entry # <<>>

\* Lines 197-200: the storage entry of an OTP, otp/<salted> -> {username, ip}.
OTPEntry(otpSalted, username, ip) ==
    [Key |-> otpSalted, Value |-> sshOTP(username, ip)]

\* Lines 93-98: the response of an OTP issuance.
OTPResponse(role, otp) ==
    SecretResponse(SecretOTPType,
                   [key_type |-> role.KeyType, key |-> otp],
                   [otp |-> otp])

\* Lines 187-188: the first candidate and the read of its key.
OTPGet(p) ==
    /\ pc[p] = "otpGet"
    /\ \E str \in UUIDs, fail \in BOOLEAN :
         LET gen == GenerateSaltedOTP(str)
             entry == IF fail THEN <<>>
                      ELSE StorageGet(otpStore, gen.otpSalted)
         IN  /\ frame' = [frame EXCEPT ![p] =
                    [@ EXCEPT !.otp = gen.otp, !.otpSalted = gen.otpSalted,
                              !.entry = entry, !.err = fail,
                              !.attempts = 1]]
             /\ calls' = [calls EXCEPT ![p] =
                    LogCall(@, "getOTP", Outcome(fail, entry))]
    /\ pc' = [pc EXCEPT ![p] = "otpLoop"]
    /\ UNCHANGED << stores, otpStore, target >>

\* The number of candidates after one more, counted up to MaxAttempts.
CountAttempt(n) == IF n < MaxAttempts THEN n + 1 ELSE MaxAttempts

\* The loop is over: its candidates are counted no longer.
LoopLeft(f) == [f EXCEPT !.attempts = 0, !.tick = FALSE]

\* OTPRetry that keeps the first token while the salted value follows the
\* new candidate.
OTPRetry_KeepsFirstOTP(p) ==
    /\ pc[p] = "otpLoop"
    /\ LoopCond(frame[p].err, frame[p].entry)
    /\ \E str \in UUIDs, fail \in BOOLEAN :
         LET gen == GenerateSaltedOTP(str)
             entry == IF fail THEN <<>>
                      ELSE StorageGet(otpStore, gen.otpSalted)
             f == [frame[p] EXCEPT !.otpSalted = gen.otpSalted,
                                   !.entry = entry, !.err = fail,
                                   !.attempts = CountAttempt(@),
                                   !.tick = ~@]
         IN  /\ calls' = [calls EXCEPT ![p] =
                    LogCall(@, "getOTP", Outcome(fail, entry))]
             /\ IF fail
                THEN /\ frame' = [frame EXCEPT ![p] =
                           Return(LoopLeft(f), <<>>, "storage error")]
                     /\ pc' = [pc EXCEPT ![p] = "done"]
                ELSE /\ frame' = [frame EXCEPT ![p] =
                           IF LoopCond(f.err, f.entry) THEN f
                           ELSE LoopLeft(f)]
                     /\ pc' = pc
    /\ UNCHANGED << stores, otpStore, target >>

\* OTPRetry with a bound on the attempts: after MaxAttempts candidates the
\* request gives up with an error.
OTPRetry_Bounded(p) ==
    /\ pc[p] = "otpLoop"
    /\ LoopCond(frame[p].err, frame[p].entry)
    /\ \E str \in UUIDs, fail \in BOOLEAN :
         LET gen == GenerateSaltedOTP(str)
             entry == IF fail THEN <<>>
                      ELSE StorageGet(otpStore, gen.otpSalted)
             f == [frame[p] EXCEPT !.otp = gen.otp,
                                   !.otpSalted = gen.otpSalted,
                                   !.entry = entry, !.err = fail,
                                   !.attempts = CountAttempt(@),
                                   !.tick = ~@]
         IN  /\ calls' = [calls EXCEPT ![p] =
                    LogCall(@, "getOTP", Outcome(fail, entry))]
             /\ IF fail \/ frame[p].attempts >= MaxAttempts
                THEN /\ frame' = [frame EXCEPT ![p] =
                           Return(LoopLeft(f), <<>>, "storage error")]
                     /\ pc' = [pc EXCEPT ![p] = "done"]
                ELSE /\ frame' = [frame EXCEPT ![p] =
                           IF LoopCond(f.err, f.entry) THEN f
                           ELSE LoopLeft(f)]
                     /\ pc' = pc
    /\ UNCHANGED << stores, otpStore, target >>

\* Lines 190-196: one turn of the loop: another candidate, another read; a
\* failed read inside the loop ends the request.
OTPRetry(p) ==
    /\ pc[p] = "otpLoop"
    /\ LoopCond(frame[p].err, frame[p].entry)
    /\ \E str \in UUIDs, fail \in BOOLEAN :
         LET gen == GenerateSaltedOTP(str)
             entry == IF fail THEN <<>>
                      ELSE StorageGet(otpStore, gen.otpSalted)
             f == [frame[p] EXCEPT !.otp = gen.otp,
                                   !.otpSalted = gen.otpSalted,
                                   !.entry = entry, !.err = fail,
                                   !.attempts = CountAttempt(@),
                                   !.tick = ~@]
         IN  /\ calls' = [calls EXCEPT ![p] =
                    LogCall(@, "getOTP", Outcome(fail, entry))]
             /\ IF fail
                THEN /\ frame' = [frame EXCEPT ![p] =
                           Return(LoopLeft(f), <<>>, "storage error")]
                     /\ pc' = [pc EXCEPT ![p] = "done"]
                ELSE /\ frame' = [frame EXCEPT ![p] =
                           IF LoopCond(f.err, f.entry) THEN f
                           ELSE LoopLeft(f)]
                     /\ pc' = pc
    /\ UNCHANGED << stores, otpStore, target >>

\* OTPPut followed by a step that can fail: the entry is written and the
\* request may still return an error.
OTPPut_ErrAfterWrite(p) ==
    /\ pc[p] = "otpLoop"
    /\ ~LoopCond(frame[p].err, frame[p].entry)
    /\ \E fail \in BOOLEAN, late \in BOOLEAN :
         LET f == frame[p]
             e == OTPEntry(f.otpSalted, f.username, f.ip)
             g == LoopLeft([f EXCEPT !.entry = <<e.Value>>, !.err = FALSE])
         IN  /\ calls' = [calls EXCEPT ![p] =
                    LogCall(@, "putOTP", IF fail THEN "err" ELSE "ok")]
             /\ otpStore' = IF fail THEN otpStore
                            ELSE StoragePut(otpStore, e.Key, e.Value)
             /\ IF fail \/ late
                THEN /\ frame' = [frame EXCEPT ![p] =
                           Return(g, <<>>, "storage error")]
                     /\ pc' = [pc EXCEPT ![p] = "done"]
                ELSE /\ frame' = [frame EXCEPT ![p] =
                           [g EXCEPT !.result =
                               <<OTPResponse(f.role[1], f.otp)>>]]
                     /\ pc' = [pc EXCEPT ![p] = "lease"]
    /\ UNCHANGED << stores, target >>

\* OTPPut with a conditional write: the entry is created only if its key is
\* free at the time of the write, and the request fails otherwise.
OTPPut_CreateIfAbsent(p) ==
    /\ pc[p] = "otpLoop"
    /\ ~LoopCond(frame[p].err, frame[p].entry)
    /\ \E fail \in BOOLEAN :
         LET f == frame[p]
             e == OTPEntry(f.otpSalted, f.username, f.ip)
             g == LoopLeft([f EXCEPT !.entry = <<e.Value>>, !.err = FALSE])
             refused == fail \/ e.Key \in DOMAIN otpStore
         IN  /\ calls' = [calls EXCEPT ![p] =
                    LogCall(@, "putOTP", IF refused THEN "err" ELSE "ok")]
             /\ IF refused
                THEN /\ otpStore' = otpStore
                     /\ frame' = [frame EXCEPT ![p] =
                           Return(g, <<>>, "storage error")]
                     /\ pc' = [pc EXCEPT ![p] = "done"]
                ELSE /\ otpStore' = StoragePut(otpStore, e.Key, e.Value)
                     /\ frame' = [frame EXCEPT ![p] =
                           [g EXCEPT !.result =
                               <<OTPResponse(f.role[1], f.otp)>>]]
                     /\ pc' = [pc EXCEPT ![p] = "lease"]
    /\ UNCHANGED << stores, target >>

\* Lines 197-207 and 89-98: after the loop the entry is built and written;
\* a failed write ends the request and leaves storage as it was.  The loop
\* is left with err set when the first read failed: line 197 then assigns
\* err anew (encoding two strings as JSON does not fail) and the write goes
\* on.
OTPPut(p) ==
    /\ pc[p] = "otpLoop"
    /\ ~LoopCond(frame[p].err, frame[p].entry)
    /\ \E fail \in BOOLEAN :
         LET f == frame[p]
             e == OTPEntry(f.otpSalted, f.username, f.ip)
             g == LoopLeft([f EXCEPT !.entry = <<e.Value>>, !.err = FALSE])
         IN  /\ calls' = [calls EXCEPT ![p] =
                    LogCall(@, "putOTP", IF fail THEN "err" ELSE "ok")]
             /\ IF fail
                THEN /\ otpStore' = otpStore
                     /\ frame' = [frame EXCEPT ![p] =
                           Return(g, <<>>, "storage error")]
                     /\ pc' = [pc EXCEPT ![p] = "done"]
                ELSE /\ otpStore' = StoragePut(otpStore, e.Key, e.Value)
                     /\ frame' = [frame EXCEPT ![p] =
                           [g EXCEPT !.result =
                               <<OTPResponse(f.role[1], f.otp)>>]]
                     /\ pc' = [pc EXCEPT ![p] = "lease"]
    /\ UNCHANGED << stores, target >>


\* -------------------------------------------- GenerateDynamicCredential
\* generateRSAKeys(role.KeyBits): the key material is opaque here.
generateRSAKeys(keyBits) ==
    [publicKey |-> "rsa-public-key", privateKey |-> "rsa-private-key"]

\* scpUpload: it succeeds and the file is on the target, or it fails and
\* the file may be there all the same.
ScpOutcomes == { [err |-> FALSE, landed |-> TRUE],
                 [err |-> TRUE, landed |-> FALSE],
                 [err |-> TRUE, landed |-> TRUE] }

\* DynNext with the err of the public key's upload (line 161) not looked at.
DynNext_IgnoreUploadError(step, ok) ==
    IF ~ok /\ step # "dynUploadKey" THEN "done"
    ELSE CASE step = "dynGetKey"       -> "dynGenKeys"
           [] step = "dynGenKeys"      -> "dynUploadKey"
           [] step = "dynUploadKey"    -> "dynUploadScript"
           [] step = "dynUploadScript" -> "dynInstall"
           [] step = "dynInstall"      -> "lease"

\* Lines 139-176: the step that follows a step, by whether its err is nil.
DynNext(step, ok) ==
    IF ~ok THEN "done"
    ELSE CASE step = "dynGetKey"       -> "dynGenKeys"
           [] step = "dynGenKeys"      -> "dynUploadKey"
           [] step = "dynUploadKey"    -> "dynUploadScript"
           [] step = "dynUploadScript" -> "dynInstall"
           [] step = "dynInstall"      -> "lease"

\* Lines 104-115: the response of a dynamic issuance.
DynamicResponse(role, username, ip, dynamicPublicKey, dynamicPrivateKey) ==
    SecretResponse(SecretDynamicKeyType,
                   [key |-> dynamicPrivateKey, key_type |-> role.KeyType],
                   [ admin_user |-> role.AdminUser, username |-> username,
                     ip |-> ip, host_key_name |-> role.KeyName,
                     dynamic_public_key |-> dynamicPublicKey,
                     port |-> role.Port,
                     install_script |-> role.InstallScript ])

\* A failure that hands the keys generated so far back with the error.
FailDynamic_Leaky(f, msg) ==
    Return(f, <<DynamicResponse(f.role[1], f.username, f.ip,
                                f.dynamicPublicKey, f.dynamicPrivateKey)>>, msg)

\* Lines 100-103 with each `return "", "", err` of GenerateDynamicCredential:
\* the request returns (nil, err).
FailDynamic(f, msg) == Return(f, <<>>, msg)

\* One step of GenerateDynamicCredential is over: the request goes on with
\* frame f, or it returns msg.
DynStep(p, step, ok, f, msg) ==
    /\ pc' = [pc EXCEPT ![p] = DynNext(step, ok)]
    /\ frame' = [frame EXCEPT ![p] =
           IF DynNext(step, ok) = "done" THEN FailDynamic(f, msg)
           ELSE IF DynNext(step, ok) = "lease"
           THEN [f EXCEPT !.result =
                    <<DynamicResponse(f.role[1], f.username, f.ip,
                                      f.dynamicPublicKey, f.dynamicPrivateKey)>>]
           ELSE f]

\* Lines 139-151: the host key is fetched and decoded.
DynGetKey(p) ==
    /\ pc[p] = "dynGetKey"
    /\ \E fail \in BOOLEAN :
         LET f == frame[p]
             keyEntry == IF fail THEN <<>>
                         ELSE StorageGet(keyStore, f.role[1].KeyName)
             decoded == keyEntry # <<>> /\ keyEntry[1].Decodes
             outcome == IF fail THEN "err"
                        ELSE IF keyEntry = <<>> THEN "nil"
                        ELSE IF ~decoded THEN "corrupt" ELSE "ok"
             msg == IF fail THEN "key not found error"
                    ELSE IF keyEntry = <<>> THEN "key not found"
                    ELSE "error reading the host key"
         IN  /\ calls' = [calls EXCEPT ![p] = LogCall(@, "getKey", outcome)]
             /\ DynStep(p, "dynGetKey", outcome = "ok",
                        [f EXCEPT !.hostKey =
                            IF decoded THEN <<keyEntry[1].Key>> ELSE <<>>],
                        msg)
    /\ UNCHANGED << stores, otpStore, target >>

\* Lines 153-156: the key pair is generated.
DynGenKeys(p) ==
    /\ pc[p] = "dynGenKeys"
    /\ \E fail \in BOOLEAN :
         LET f == frame[p]
             k == generateRSAKeys(f.role[1].KeyBits)
         IN  /\ calls' = [calls EXCEPT ![p] =
                    LogCall(@, "genKeys", IF fail THEN "err" ELSE "ok")]
             /\ DynStep(p, "dynGenKeys", ~fail,
                        IF fail THEN f
                        ELSE [f EXCEPT !.dynamicPublicKey = k.publicKey,
                                       !.dynamicPrivateKey = k.privateKey],
                        "error generating key")
    /\ UNCHANGED << stores, otpStore, target >>

\* DynUploadKey that also writes the file's name into storage, as the OTP
\* issuer does with the salted value it draws.
DynUploadKey_StoresName(p) ==
    /\ pc[p] = "dynUploadKey"
    /\ \E str \in UUIDs, scp \in ScpOutcomes :
         LET f == [frame[p] EXCEPT !.publicKeyFileName =
                                      GenerateSaltedOTP(str).otpSalted]
         IN  /\ calls' = [calls EXCEPT ![p] =
                    LogCall(@, "scpKey", IF scp.err THEN "err" ELSE "ok")]
             /\ targetFiles' = IF scp.landed
                               THEN targetFiles \cup
                                    {[ip |-> f.ip, name |-> f.publicKeyFileName]}
                               ELSE targetFiles
             /\ otpStore' = StoragePut(otpStore, f.publicKeyFileName,
                                       sshOTP(f.username, f.ip))
             /\ DynStep(p, "dynUploadKey", ~scp.err, f,
                        "error uploading public key")
    /\ UNCHANGED << stores, authorizedKeys >>

\* Lines 159-163: the public key is copied to the target under a fresh
\* salted name.
DynUploadKey(p) ==
    /\ pc[p] = "dynUploadKey"
    /\ \E str \in UUIDs, scp \in ScpOutcomes :
         LET f == [frame[p] EXCEPT !.publicKeyFileName =
                                      GenerateSaltedOTP(str).otpSalted]
         IN  /\ calls' = [calls EXCEPT ![p] =
                    LogCall(@, "scpKey", IF scp.err THEN "err" ELSE "ok")]
             /\ targetFiles' = IF scp.landed
                               THEN targetFiles \cup
                                    {[ip |-> f.ip, name |-> f.publicKeyFileName]}
                               ELSE targetFiles
             /\ DynStep(p, "dynUploadKey", ~scp.err, f,
                        "error uploading public key")
    /\ UNCHANGED << stores, otpStore, authorizedKeys >>

\* Lines 165-169: the install script is copied next to it.
DynUploadScript(p) ==
    /\ pc[p] = "dynUploadScript"
    /\ \E scp \in ScpOutcomes :
         LET f == frame[p]
         IN  /\ calls' = [calls EXCEPT ![p] =
                    LogCall(@, "scpScript", IF scp.err THEN "err" ELSE "ok")]
             /\ targetFiles' =
                    IF scp.landed
                    THEN targetFiles \cup
                         {[ip |-> f.ip,
                           name |-> ScriptFileName(f.publicKeyFileName)]}
                    ELSE targetFiles
             /\ DynStep(p, "dynUploadScript", ~scp.err, f,
                        "error uploading install script")
    /\ UNCHANGED << stores, otpStore, authorizedKeys >>

\* Lines 172-176 and 104-115: the script is run on the target, which adds
\* the public key to the user's authorized_keys; then the response is built.
DynInstall(p) ==
    /\ pc[p] = "dynInstall"
    /\ \E fail \in BOOLEAN :
         LET f == frame[p]
         IN  /\ calls' = [calls EXCEPT ![p] =
                    LogCall(@, "install", IF fail THEN "err" ELSE "ok")]
             /\ authorizedKeys' =
                    IF fail THEN authorizedKeys
                    ELSE authorizedKeys \cup
                         {[ip |-> f.ip, username |-> f.username,
                           key |-> f.dynamicPublicKey]}
             /\ DynStep(p, "dynInstall", ~fail, f,
                        "error adding public key to authorized_keys file in target")
    /\ UNCHANGED << stores, otpStore, targetFiles >>

\* ------------------------------------------------------------------ lease
\* ApplyLeasePolicy without the defaults of lines 128-131.
ApplyLeasePolicy_NoDefault(secret, lease) ==
    IF lease # <<>>
    THEN [secret EXCEPT !.Lease = lease[1].Lease,
                        !.LeaseGracePeriod = lease[1].LeaseMax]
    ELSE secret

\* Lines 123-131: the lease fields of the secret.
ApplyLeasePolicy(secret, lease) ==
    IF lease # <<>>
    THEN [secret EXCEPT !.Lease = lease[1].Lease,
                        !.LeaseGracePeriod = lease[1].LeaseMax]
    ELSE [secret EXCEPT !.Lease = DefaultLease,
                        !.LeaseGracePeriod = DefaultLeaseGrace]

\* ApplyLease with the lookup's error looked at: a failed lookup ends the
\* request with (nil, err).
ApplyLease_FatalLookup(p) ==
    /\ pc[p] = "lease"
    /\ \E fail \in BOOLEAN :
         LET f == frame[p]
             l == Lease(leaseStore, fail)
             resp == [f.result[1] EXCEPT !.Secret =
                         <<ApplyLeasePolicy(@[1], l.lease)>>]
         IN  /\ calls' = [calls EXCEPT ![p] =
                    LogCall(@, "lease", Outcome(l.err, l.lease))]
             /\ frame' = [frame EXCEPT ![p] =
                    IF l.err
                    THEN Return([f EXCEPT !.lease = l.lease], <<>>,
                                "error retrieving lease")
                    ELSE Return([f EXCEPT !.lease = l.lease], <<resp>>, "")]
    /\ pc' = [pc EXCEPT ![p] = "done"]
    /\ UNCHANGED << stores, otpStore, target >>

\* Lines 120-133: the lease is looked up, its error dropped, the secret's
\* lease set and the response returned.
ApplyLease(p) ==
    /\ pc[p] = "lease"
    /\ \E fail \in BOOLEAN :
         LET f == frame[p]
             l == Lease(leaseStore, fail)
             resp == [f.result[1] EXCEPT !.Secret =
                         <<ApplyLeasePolicy(@[1], l.lease)>>]
         IN  /\ calls' = [calls EXCEPT ![p] =
                    LogCall(@, "lease", Outcome(l.err, l.lease))]
             /\ frame' = [frame EXCEPT ![p] =
                    Return([f EXCEPT !.lease = l.lease], <<resp>>, "")]
    /\ pc' = [pc EXCEPT ![p] = "done"]
    /\ UNCHANGED << stores, otpStore, target >>

\* ---------------------------------------------------------- specifications
Step(p) ==
    \/ Validate(p)
    \/ OTPGet(p)
    \/ OTPRetry(p)
    \/ OTPPut(p)
    \/ DynGetKey(p)
    \/ DynGenKeys(p)
    \/ DynUploadKey(p)
    \/ DynUploadScript(p)
    \/ DynInstall(p)
    \/ ApplyLease(p)

\* Requests are served concurrently.
Next == \E p \in Procs : ReadFields(p) \/ Step(p)

Spec == Init /\ [][Next]_vars

\* Requests are served one after another: a request is read only when no
\* other is in progress.
ReadFieldsAlone(p) ==
    /\ \A q \in Procs \ {p} : pc[q] \in {"idle", "done"}
    /\ ReadFields(p)

NextSeq == \E p \in Procs : ReadFieldsAlone(p) \/ Step(p)

SpecSeq == Init /\ [][NextSeq]_vars

\* The issuance of OTPs for one role: "web" is of type otp, with the block
\* 10.0.0.0/24 and the default user "deploy", and no lease policy is stored.
InitOTP ==
    /\ Init
    /\ roleStore = [web |-> MakeRole("deploy", <<"10.0.0.0/24">>, KeyTypeOTP, "")]
    /\ leaseStore = <<>>

\* The steps of a request on the OTP branch.
StepOTP(p) ==
    \/ Validate(p)
    \/ OTPGet(p)
    \/ OTPRetry(p)
    \/ OTPPut(p)
    \/ ApplyLease(p)

NextOTP == \E p \in Procs : ReadFields(p) \/ StepOTP(p)

\* A request that has been read is served on: its handler is not left
\* waiting for ever at a step it can take.  Nothing is said of what the
\* calls it makes give back, nor of whether requests arrive.
SpecLive ==
    InitOTP /\ [][NextOTP]_vars /\ \A p \in Procs : WF_vars(StepOTP(p))


\* ------------------------------------------------- vocabulary of the claims
Done(p) == pc[p] = "done"

\* The request returned a response that is no error response, and no error.
Succeeded(p) ==
    /\ Done(p)
    /\ frame[p].reterr = ""
    /\ frame[p].result # <<>>
    /\ ~frame[p].result[1].IsError

\* The request returned the error response with this text, and no error.
ErrorResponded(p, text) ==
    /\ Done(p)
    /\ frame[p].reterr = ""
    /\ frame[p].result = <<ErrorResponse(text)>>

\* The request returned a Go error and a nil response.
InternalError(p) ==
    /\ Done(p)
    /\ frame[p].reterr # ""
    /\ frame[p].result = <<>>

HasCall(p, name, outcome) ==
    \E i \in 1..Len(calls[p]) : calls[p][i] = <<name, outcome>>

Called(p, name) ==
    \E i \in 1..Len(calls[p]) : calls[p][i][1] = name

OTPCalls == {"getOTP", "putOTP"}
RemoteCalls == {"scpKey", "scpScript", "install"}
DynCalls == {"getKey", "genKeys"} \cup RemoteCalls

IsDynCall(c) == c[1] \in DynCalls

\* The request got as far as the CIDR check of line 79 with a role, a
\* username and a parsed address.
ReachedCIDRCheck(p) ==
    /\ pc[p] \notin {"idle", "getRole"}
    /\ frame[p].role # <<>>
    /\ EffectiveUsername(frame[p].d.username, frame[p].role[1]) # ""
    /\ ParseIP(frame[p].d.ip) # <<>>

\* The request's address lies in one of its role's CIDR blocks.
IPInsideRole(p) ==
    InSomeBlock(IPString(ParseIP(frame[p].d.ip)), frame[p].role[1].CIDRList)

NoSideEffects(p) ==
    \A i \in 1..Len(calls[p]) : calls[p][i][1] \notin {"putOTP"} \cup RemoteCalls


\* ----------------------------------------------------------------- claims
\* C1 as stated: for every role R and every syntactically valid request IP
\* that lies in none of R's CIDR blocks, the request is answered with the
\* "IP does not belong to role" error response, with no storage Put and no
\* remote copy or remote exec.
C1_RejectedOutsideEveryBlock ==
    \A p \in Procs :
        (Done(p) /\ ReachedCIDRCheck(p) /\ ~IPInsideRole(p))
            => /\ ErrorResponded(p, "IP does not belong to role")
               /\ NoSideEffects(p)

\* C1 as amended: for every role R whose CIDR list cidrContainsIP evaluates
\* without error (no malformed entry) and every syntactically valid request
\* IP that lies in none of R's CIDR blocks, the request is answered with the
\* "IP does not belong to role" error response; and whenever the IP lies in
\* none of R's blocks, malformed entry or not, the request ends with an
\* error response, no storage Put and no remote copy or remote exec.
C1_RejectedOutsideWellFormedBlocks ==
    \A p \in Procs :
        (Done(p) /\ ReachedCIDRCheck(p) /\ ~IPInsideRole(p))
            => /\ ~HasMalformed(frame[p].role[1].CIDRList)
                    => ErrorResponded(p, "IP does not belong to role")
               /\ HasMalformed(frame[p].role[1].CIDRList)
                    => ErrorResponded(p, "Error validating IP")
               /\ NoSideEffects(p)
               /\ otpStore = EmptyStore \/ \E q \in Procs \ {p} :
                                               HasCall(q, "putOTP", "ok")

\* A request for 192.168.1.1 against a role of well-formed blocks that do
\* not hold it has been rejected.
C1_Witness ==
    \E p \in Procs :
        /\ Done(p) /\ ReachedCIDRCheck(p) /\ ~IPInsideRole(p)
        /\ ~HasMalformed(frame[p].role[1].CIDRList)
        /\ ErrorResponded(p, "IP does not belong to role")
        /\ calls[p] = << <<"getRole", "ok">> >>


\* C2: when issuances run one after another (SpecSeq), also in runs where
\* storage reads fail, no Put goes to an otp/<salted> key that holds a live
\* entry: the successful issuances so far have left as many entries, under
\* as many distinct salted keys.
C2_NoOverwriteInSequence ==
    Cardinality(DOMAIN otpStore)
        = Cardinality({p \in Procs : HasCall(p, "putOTP", "ok")})

\* The request p is about to Put under a key whose Get it saw free, after
\* the request q, whose Get saw the same key free, has Put under it.
Raced(p, q) ==
    /\ pc[p] = "otpLoop"
    /\ ~frame[p].err /\ frame[p].entry = <<>>
    /\ HasCall(q, "getOTP", "nil") /\ HasCall(q, "putOTP", "ok")
    /\ frame[q].otpSalted = frame[p].otpSalted

\* The Put of p goes through, leaves p's binding under its key and gives p
\* a response carrying its OTP.
OverwritingPut(p) ==
    /\ OTPPut(p)
    /\ pc'[p] = "lease"
    /\ otpStore'[frame[p].otpSalted] = sshOTP(frame[p].username, frame[p].ip)
    /\ ~frame'[p].result[1].IsError
    /\ frame'[p].result[1].Data.key = frame[p].otp

\* C3: when two concurrent issuances have both read the same otp/<salted>
\* key as free before either has written it and the first has then written
\* it, nothing holds the second back: the first has its success response
\* with the OTP, its entry is in storage, and the Put of the second can go
\* through, replacing that {username, ip} binding and returning the same
\* OTP in a success response.
C3_RacedPutOverwrites ==
    \A p \in Procs : \A q \in Procs \ {p} :
        Raced(p, q)
            => /\ frame[p].otpSalted \in DOMAIN otpStore
               /\ frame[q].otp = frame[p].otp
               /\ pc[q] \in {"lease", "done"}
               /\ ~frame[q].result[1].IsError
               /\ frame[q].result[1].Data.key = frame[q].otp
               /\ ENABLED OverwritingPut(p)

\* Both requests have returned a success response with the same OTP; both
\* saw its key free and both wrote it; the bindings differ and storage
\* holds one of them only.
C3_Witness ==
    \E p \in Procs : \E q \in Procs \ {p} :
        /\ Succeeded(p) /\ Succeeded(q)
        /\ frame[p].role[1].KeyType = KeyTypeOTP
        /\ frame[p].result[1].Data.key = frame[q].result[1].Data.key
        /\ calls[p] = << <<"getRole", "ok">>, <<"getOTP", "nil">>,
                         <<"putOTP", "ok">>, <<"lease", "nil">> >>
        /\ calls[q] = calls[p]
        /\ frame[p].username # frame[q].username
        /\ otpStore[frame[p].otpSalted]
               = sshOTP(frame[p].username, frame[p].ip)
        /\ Cardinality(DOMAIN otpStore) = 1


\* The calls of GenerateDynamicCredential a request has made, in order.
DynTrace(p) == SelectSeq(calls[p], IsDynCall)

DynOrder == <<"getKey", "genKeys", "scpKey", "scpScript", "install">>

\* C4: the steps of GenerateDynamicCredential come in the order host-key
\* fetch, key generation, public-key upload, script upload, install, each
\* after all earlier ones have succeeded; install is not called unless both
\* uploads succeeded (and left their files), and nothing is uploaded when
\* the host key is absent.
C4_DynamicStepsInOrder ==
    \A p \in Procs :
        /\ Len(DynTrace(p)) <= Len(DynOrder)
        /\ \A i \in 1..Len(DynTrace(p)) :
              /\ DynTrace(p)[i][1] = DynOrder[i]
              /\ i < Len(DynTrace(p)) => DynTrace(p)[i][2] = "ok"
        /\ Called(p, "install")
              => /\ HasCall(p, "scpKey", "ok") /\ HasCall(p, "scpScript", "ok")
                 /\ [ip |-> frame[p].ip, name |-> frame[p].publicKeyFileName]
                        \in targetFiles
                 /\ [ip |-> frame[p].ip,
                     name |-> ScriptFileName(frame[p].publicKeyFileName)]
                        \in targetFiles
        /\ ~HasCall(p, "getKey", "ok")
              => \A i \in 1..Len(calls[p]) : calls[p][i][1] \notin RemoteCalls

\* One request has run all five steps; the other has stopped at the failed
\* upload of its public key.
C4_Witness ==
    \E p \in Procs : \E q \in Procs \ {p} :
        /\ HasCall(p, "install", "ok")
        /\ Done(q) /\ DynTrace(q) = << <<"getKey", "ok">>, <<"genKeys", "ok">>,
                                       <<"scpKey", "err">> >>

\* C5: a failed storage read of GenerateOTPCredential, the first as well as
\* a later one, or its failed write, aborts the issuance: the request
\* returns an internal error and no OTP, and no Put follows a failed read.
C5_StorageFailureAborts ==
    \A p \in Procs :
        /\ HasCall(p, "getOTP", "err")
              => /\ ~Called(p, "putOTP")
                 /\ Done(p) => InternalError(p)
        /\ HasCall(p, "putOTP", "err") => InternalError(p)

\* C6: a successful response carries the lease of the policy the lookup
\* gave, Lease = D and LeaseGracePeriod = M, or, when it gave none, 10 and 2
\* minutes; none is returned before the lease is set.
C6_LeaseAssigned ==
    \A p \in Procs :
        Succeeded(p) =>
            LET secret == frame[p].result[1].Secret[1]
            IN  /\ Called(p, "lease")
                /\ HasCall(p, "lease", "ok") => frame[p].lease = leaseStore
                /\ ~HasCall(p, "lease", "ok") => frame[p].lease = <<>>
                /\ frame[p].lease # <<>>
                      => /\ secret.Lease = frame[p].lease[1].Lease
                         /\ secret.LeaseGracePeriod = frame[p].lease[1].LeaseMax
                /\ frame[p].lease = <<>>
                      => /\ secret.Lease = 10
                         /\ secret.LeaseGracePeriod = 2

\* With a policy stored, one request has got the policy's lease and the
\* other, whose lookup failed, the default one.
C6_Witness ==
    \E p \in Procs : \E q \in Procs \ {p} :
        /\ Succeeded(p) /\ Succeeded(q)
        /\ frame[p].lease # <<>>
        /\ frame[p].result[1].Secret[1].Lease = 30
        /\ frame[p].result[1].Secret[1].LeaseGracePeriod = 60
        /\ frame[q].lease = <<>>
        /\ frame[q].result[1].Secret[1].Lease = 10


\* C7: the raw OTP is never in storage: every otp/ entry is keyed by the
\* salted form of a token, never by a token, and its value is the
\* {username, ip} of the request that wrote it; no raw token names a file
\* on a target; an OTP response carries the token its own request drew.
C7_RawOTPNeverStored ==
    /\ \A k \in DOMAIN otpStore :
          /\ k \notin UUIDs
          /\ \E u \in UUIDs : k = SaltID(u)
          /\ DOMAIN otpStore[k] = {"Username", "IP"}
          /\ \E p \in Procs :
                /\ HasCall(p, "putOTP", "ok")
                /\ otpStore[k] = sshOTP(frame[p].username, frame[p].ip)
    /\ \A file \in targetFiles : file.name \notin UUIDs
    /\ \A p \in Procs :
          (frame[p].result # <<>> /\ ~frame[p].result[1].IsError
              /\ frame[p].result[1].Secret[1].Type = SecretOTPType)
            => /\ frame[p].otp \in UUIDs
               /\ frame[p].result[1].Data.key = frame[p].otp
               /\ frame[p].result[1].Secret[1].InternalData
                      = [otp |-> frame[p].otp]

\* An OTP has been issued and its entry stands under the salted key.
C7_Witness ==
    \E p \in Procs :
        /\ Succeeded(p)
        /\ frame[p].result[1].Data.key \in UUIDs
        /\ SaltID(frame[p].result[1].Data.key) \in DOMAIN otpStore
        /\ frame[p].result[1].Data.key \notin DOMAIN otpStore

\* The role is of type otp or dynamic, its CIDR list is well formed, and
\* the request has passed the checks with an address inside it.
ValidForRole(p) ==
    /\ ReachedCIDRCheck(p)
    /\ frame[p].role[1].KeyType \in {KeyTypeOTP, KeyTypeDynamic}
    /\ ~HasMalformed(frame[p].role[1].CIDRList)
    /\ IPInsideRole(p)

\* No call the request made on a collaborator failed (the lease lookup
\* aside, whose error is dropped).
NoCallFailed(p) ==
    \A i \in 1..Len(calls[p]) :
        \/ calls[p][i][1] = "lease"
        \/ calls[p][i][2] = "ok"
        \/ calls[p][i] = <<"getOTP", "nil">>

C9_MissingFieldNoContact ==
    \A p \in Procs :
        (pc[p] # "idle" /\ (frame[p].d.role = "" \/ frame[p].d.ip = ""))
            => /\ ErrorResponded(p, IF frame[p].d.role = ""
                                    THEN "Missing role" ELSE "Missing ip")
               /\ calls[p] = <<>>

\* One request came without role, the other with a role and without ip.
C9_Witness ==
    \E p \in Procs : \E q \in Procs \ {p} :
        /\ Done(p) /\ frame[p].d.role = ""
        /\ Done(q) /\ frame[q].d.role # "" /\ frame[q].d.ip = ""

\* C10: when a step of the dynamic issuance fails the request ends there
\* with an internal error and a nil response (so with no key), no later
\* step runs, and the files uploaded before stay on the target; a dynamic
\* response is returned only after all five steps succeeded.
C10_DynamicFailureAborts ==
    \A p \in Procs :
        /\ (\E i \in 1..Len(DynTrace(p)) : DynTrace(p)[i][2] # "ok")
              => /\ InternalError(p)
                 /\ calls[p][Len(calls[p])][2] # "ok"
                 /\ calls[p][Len(calls[p])][1] \in DynCalls
                 /\ \A i \in 1..(Len(calls[p]) - 1) : calls[p][i][2] = "ok"
                 /\ HasCall(p, "scpKey", "ok")
                       => [ip |-> frame[p].ip,
                           name |-> frame[p].publicKeyFileName] \in targetFiles
                 /\ HasCall(p, "scpScript", "ok")
                       => [ip |-> frame[p].ip,
                           name |-> ScriptFileName(frame[p].publicKeyFileName)]
                              \in targetFiles
        /\ (frame[p].result # <<>> /\ ~frame[p].result[1].IsError
              /\ frame[p].result[1].Secret[1].Type = SecretDynamicKeyType)
              => /\ frame[p].reterr = ""
                 /\ \A i \in 1..Len(DynOrder) : HasCall(p, DynOrder[i], "ok")
                 /\ frame[p].result[1].Data.key = frame[p].dynamicPrivateKey

\* The script's upload has failed after the public key's had succeeded: the
\* request ended in an internal error and the key file is on the target.
C10_Witness ==
    \E p \in Procs :
        /\ InternalError(p)
        /\ HasCall(p, "scpKey", "ok") /\ HasCall(p, "scpScript", "err")
        /\ [ip |-> frame[p].ip, name |-> frame[p].publicKeyFileName]
               \in targetFiles

\* A credential has been generated for the request: its response is built
\* and holds the key.
CredentialGenerated(p) ==
    /\ frame[p].result # <<>>
    /\ ~frame[p].result[1].IsError
    /\ frame[p].result[1].Data.key
           \in {frame[p].otp, frame[p].dynamicPrivateKey}

\* C11: a failed lease lookup never blocks issuance: a request at the lease
\* lookup has its credential and has nothing but the lookup left to do, and
\* a request whose lookup failed has returned that credential in a success
\* response with the default lease, 10 minutes and 2 minutes of grace, also
\* when a policy is stored.
C11_LeaseFailureFailsOpen ==
    \A p \in Procs :
        /\ pc[p] = "lease"
              => /\ CredentialGenerated(p)
                 /\ frame[p].reterr = ""
                 /\ ENABLED ApplyLease(p)
        /\ HasCall(p, "lease", "err")
              => /\ Succeeded(p)
                 /\ CredentialGenerated(p)
                 /\ frame[p].result[1].Secret[1].Lease = 10
                 /\ frame[p].result[1].Secret[1].LeaseGracePeriod = 2

\* With a policy of 30 and 60 minutes stored, a dynamic request whose lookup
\* failed has got its key with the default lease, after all five steps.
C11_Witness ==
    \E p \in Procs :
        /\ leaseStore = <<[Lease |-> 30, LeaseMax |-> 60]>>
        /\ HasCall(p, "lease", "err")
        /\ Succeeded(p)
        /\ HasCall(p, "install", "ok")
        /\ frame[p].result[1].Data.key = "rsa-private-key"
        /\ frame[p].result[1].Secret[1].Lease = DefaultLease
        /\ frame[p].result[1].Secret[1].LeaseGracePeriod = DefaultLeaseGrace

\* The request is in the free-key loop and its last Get succeeded and found
\* an entry.
Colliding(p) ==
    pc[p] = "otpLoop" /\ LoopCond(frame[p].err, frame[p].entry)

\* One more turn of the loop whose Get succeeds and finds an entry again.
CollidingRetry(p) ==
    /\ OTPRetry(p)
    /\ pc'[p] = "otpLoop"
    /\ LoopCond(frame'[p].err, frame'[p].entry)

\* C12: the free-key loop has no attempt bound.  As long as the Get of the
\* candidate succeeds and finds an entry the request can only draw another
\* candidate (it cannot write, and it has not returned), however many it
\* has drawn, and a further colliding turn is possible; the loop is left
\* only after a Get that found the key free or failed.  Hence a request
\* that is served on either collides for ever from some point on or
\* returns: it returns once a Get reports a free key or fails.
C12_LoopUnbounded ==
    \A p \in Procs :
        /\ [](Colliding(p) => /\ ENABLED CollidingRetry(p)
                               /\ ~ENABLED OTPPut(p)
                               /\ ~Done(p))
        /\ [](\A i \in 1..Len(calls[p]) :
                  calls[p][i] = <<"getOTP", "ok">>
                      => /\ i = Len(calls[p]) => Colliding(p)
                         /\ i < Len(calls[p]) => calls[p][i + 1][1] = "getOTP")
        /\ (pc[p] = "otpLoop" /\ ~Colliding(p)) ~> Done(p)
        /\ <>[]Colliding(p) \/ (pc[p] = "otpGet" ~> Done(p))

\* A request has drawn MaxAttempts candidates and more, each Get found an
\* entry, and it is still in the loop.
C12_Witness ==
    \E p \in Procs :
        /\ Colliding(p)
        /\ frame[p].attempts = MaxAttempts
        /\ frame[p].tick = (MaxAttempts % 2 = 1)
        /\ calls[p] = << <<"getRole", "ok">>, <<"getOTP", "ok">> >>

\* The request has passed every check of lines 45-85: it has a role, a
\* username and a parsed address that cidrContainsIP found in the role's
\* blocks.
PassedValidation(p) ==
    /\ ReachedCIDRCheck(p)
    /\ ~ErrorResponded(p, "Error validating IP")
    /\ ~ErrorResponded(p, "IP does not belong to role")

\* C13: when the role's key type is neither otp nor dynamic, a request that
\* passed all validation ends with a nil response and the error 'key type
\* unknown', not with an error response; its only call on a collaborator
\* was the role lookup (no storage Put, no remote session, no lease lookup)
\* and it has written nothing.  A request that fails a check is answered
\* with that check's error response whatever the key type.
C13_UnknownKeyTypeFatal ==
    \A p \in Procs :
        (pc[p] \notin {"idle", "getRole"} /\ frame[p].role # <<>>
           /\ frame[p].role[1].KeyType \notin {KeyTypeOTP, KeyTypeDynamic})
            => /\ Done(p)
               /\ calls[p] = << <<"getRole", "ok">> >>
               /\ PassedValidation(p)
                     => /\ InternalError(p)
                        /\ frame[p].reterr = "key type unknown"
               /\ ~PassedValidation(p)
                     => /\ frame[p].reterr = ""
                        /\ frame[p].result # <<>>
                        /\ frame[p].result[1].IsError
               /\ otpStore = EmptyStore
                     \/ \E q \in Procs \ {p} : HasCall(q, "putOTP", "ok")
               /\ targetFiles = {} /\ authorizedKeys = {}

\* Against a role of key type "ca", the request of alice for 10.0.0.5 has
\* ended in the internal error and one for 192.168.1.1 in the error
\* response of the CIDR check.
C13_Witness ==
    \E p \in Procs : \E q \in Procs \ {p} :
        /\ frame[p].role # <<>> /\ frame[p].role[1].KeyType = "ca"
        /\ frame[p].username = "alice" /\ frame[p].ip = "10.0.0.5"
        /\ PassedValidation(p)
        /\ InternalError(p) /\ frame[p].reterr = "key type unknown"
        /\ ErrorResponded(q, "IP does not belong to role")

\* C14: the username bound to an issued credential (in the otp/ entry the
\* request wrote, which stands under its key unless another request has
\* written the same key; in the dynamic response's internal data and in the
\* target's authorized_keys) is the request's username when that is not
\* empty and the role's default username otherwise, and it is never empty;
\* a request username that is not empty is never replaced; when both are
\* empty the request is answered with the 'no default username' error
\* response after the role lookup alone, with no storage write and no
\* remote session.
C14_UsernameResolution ==
    \A p \in Procs :
        (pc[p] \notin {"idle", "getRole"} /\ frame[p].role # <<>>)
            => LET given == frame[p].d.username
                   default == frame[p].role[1].DefaultUser
                   bound == IF given # "" THEN given ELSE default
               IN  /\ given # "" => frame[p].username = given
                   /\ frame[p].username = bound
                   /\ bound = ""
                         => /\ ErrorResponded(p,
                                  "No default username registered. Use 'username' option")
                            /\ calls[p] = << <<"getRole", "ok">> >>
                   /\ HasCall(p, "putOTP", "ok")
                         => /\ bound # ""
                            /\ frame[p].entry[1].Username = bound
                            /\ frame[p].otpSalted \in DOMAIN otpStore
                            /\ otpStore[frame[p].otpSalted].Username
                                  \in {bound} \cup
                                      {frame[q].username : q \in
                                         {r \in Procs \ {p} :
                                            /\ HasCall(r, "putOTP", "ok")
                                            /\ frame[r].otpSalted
                                                  = frame[p].otpSalted}}
                   /\ HasCall(p, "install", "ok")
                         => /\ bound # ""
                            /\ \E k \in authorizedKeys :
                                   k.username = bound /\ k.ip = frame[p].ip
                   /\ (Succeeded(p)
                         /\ frame[p].role[1].KeyType = KeyTypeDynamic)
                         => frame[p].result[1].Secret[1].InternalData.username
                                = bound

\* Against a role with the default user "deploy", the OTP a request without
\* username got is bound to "deploy" and the OTP alice asked for to "alice".
C14_Witness ==
    \E p \in Procs : \E q \in Procs \ {p} :
        /\ Succeeded(p) /\ Succeeded(q)
        /\ frame[p].role[1].DefaultUser = "deploy"
        /\ frame[p].d.username = "" /\ frame[q].d.username = "alice"
        /\ frame[p].otpSalted # frame[q].otpSalted
        /\ otpStore[frame[p].otpSalted].Username = "deploy"
        /\ otpStore[frame[q].otpSalted].Username = "alice"

\* The number of Put calls in the request's record.
PutCount(p) ==
    Cardinality({i \in 1..Len(calls[p]) : calls[p][i][1] = "putOTP"})

\* In this step the handler p has returned from a Put.
PutStep(p) ==
    /\ pc'[p] # pc[p]
    /\ Len(calls'[p]) > 0
    /\ calls'[p][Len(calls'[p])][1] = "putOTP"

\* C15: no step of any request, successful or failed, writes or deletes a
\* role record, a host-key entry or the lease policy; storage changes only
\* in a step in which a request makes its Put, a request makes a Put at most
\* once, and that Put adds or replaces the one entry under the request's
\* salted key in the otp/ namespace and deletes none; a request on the
\* dynamic branch makes no Put, and no step of it (the upload under the
\* salted name included) changes storage.
C15_StorageFrame ==
    [][ /\ roleStore' = roleStore
        /\ keyStore' = keyStore
        /\ leaseStore' = leaseStore
        /\ DOMAIN otpStore \subseteq DOMAIN otpStore'
        /\ otpStore' # otpStore => \E p \in Procs : PutStep(p)
        /\ \A p \in Procs :
              /\ PutStep(p)
                    => /\ ~Called(p, "putOTP")
                       /\ frame[p].role[1].KeyType = KeyTypeOTP
                       /\ frame[p].otpSalted \in {SaltID(u) : u \in UUIDs}
                       /\ \A k \in DOMAIN otpStore' \ {frame[p].otpSalted} :
                              k \in DOMAIN otpStore /\ otpStore'[k] = otpStore[k]
              /\ PutCount(p)' <= 1
              /\ (frame'[p].role # <<>>
                    /\ frame'[p].role[1].KeyType = KeyTypeDynamic)
                    => /\ PutCount(p)' = 0
                       /\ pc'[p] # pc[p] => otpStore' = otpStore
      ]_vars

\* Against a dynamic role one request has got its key and the other has
\* failed at the script's upload: both have uploaded under a salted name,
\* and the otp/ namespace is empty, the role and the host keys as they were.
C15_Witness ==
    \E p \in Procs : \E q \in Procs \ {p} :
        /\ Succeeded(p) /\ HasCall(p, "install", "ok")
        /\ InternalError(q) /\ HasCall(q, "scpScript", "err")
        /\ frame[p].publicKeyFileName \in {SaltID(u) : u \in UUIDs}
        /\ [ip |-> frame[q].ip, name |-> frame[q].publicKeyFileName]
               \in targetFiles
        /\ otpStore = EmptyStore
        /\ keyStore = KeyEntries
        /\ roleStore["web"] = frame[p].role[1]

\* What an OTP of the request is to be bound to: the effective username and
\* the canonical text of the parsed request address.
Binding(p) ==
    sshOTP(IF frame[p].d.username # "" THEN frame[p].d.username
           ELSE frame[p].role[1].DefaultUser,
           IPString(ParseIP(frame[p].d.ip)))

\* In this step the Put of the request p succeeds.
PutDone(p) ==
    PutStep(p) /\ calls'[p][Len(calls'[p])] = <<"putOTP", "ok">>

\* In this step the handler p returns the response of an OTP issuance.
OTPReturn(p) ==
    /\ pc[p] = "lease" /\ pc'[p] = "done"
    /\ frame[p].role[1].KeyType = KeyTypeOTP

\* The requests other than p that have Put under this key.
OtherWriters(p, key) ==
    {q \in Procs \ {p} :
        HasCall(q, "putOTP", "ok") /\ frame[q].otpSalted = key}

ValidationMessages ==
    { "Missing role", "Missing ip", "Role not found",
      "No default username registered. Use 'username' option",
      "Invalid IP", "Error validating IP", "IP does not belong to role" }

\* The request got through the checks: it was answered with none of their
\* error responses and not with the role lookup's error.
NotRejected(p) ==
    /\ frame[p].reterr # "error retrieving role"
    /\ \/ frame[p].result = <<>>
       \/ frame[p].result[1].Data \notin
              {[error |-> text] : text \in ValidationMessages}

\* C17: a request is answered by the first check it fails, in the order
\* missing role, missing ip, role lookup (a failed read gives the internal
\* error, an absent role the 'role not found' error response), no username
\* available, invalid IP syntax, CIDR evaluation error, IP not permitted,
\* whatever later checks it would fail too; the checks before the role
\* lookup are answered without any call on a collaborator and the later
\* ones after the role lookup alone; a request that fails none gets none of
\* these answers.  (Where a list holds a malformed entry and a block with
\* the address, the CIDR evaluation gives its error or the match.)
C17_FirstFailedCheckAnswers ==
    \A p \in Procs :
        pc[p] # "idle" =>
          LET d == frame[p].d
              stored == StorageGet(roleStore, d.role)
              nouser == d.username = "" /\ stored[1].DefaultUser = ""
              addr == IPString(ParseIP(d.ip))
              cidrs == stored[1].CIDRList
              malformed == HasMalformed(cidrs)
              inside == InSomeBlock(addr, cidrs)
          IN  IF d.role = ""
              THEN ErrorResponded(p, "Missing role") /\ calls[p] = <<>>
              ELSE IF d.ip = ""
              THEN ErrorResponded(p, "Missing ip") /\ calls[p] = <<>>
              ELSE IF pc[p] = "getRole"
              THEN calls[p] = <<>>
              ELSE IF HasCall(p, "getRole", "err")
              THEN /\ InternalError(p)
                   /\ frame[p].reterr = "error retrieving role"
                   /\ Len(calls[p]) = 1
              ELSE IF stored = <<>>
              THEN /\ ErrorResponded(p, "Role not found")
                   /\ calls[p] = << <<"getRole", "nil">> >>
              ELSE /\ calls[p][1] = <<"getRole", "ok">>
                   /\ IF nouser
                      THEN /\ ErrorResponded(p,
                                "No default username registered. Use 'username' option")
                           /\ Len(calls[p]) = 1
                      ELSE IF ParseIP(d.ip) = <<>>
                      THEN ErrorResponded(p, "Invalid IP") /\ Len(calls[p]) = 1
                      ELSE IF malformed /\ ~inside
                      THEN /\ ErrorResponded(p, "Error validating IP")
                           /\ Len(calls[p]) = 1
                      ELSE IF ~inside
                      THEN /\ ErrorResponded(p, "IP does not belong to role")
                           /\ Len(calls[p]) = 1
                      ELSE IF malformed
                      THEN \/ /\ ErrorResponded(p, "Error validating IP")
                              /\ Len(calls[p]) = 1
                           \/ NotRejected(p)
                      ELSE NotRejected(p)

\* Against a role without default user, a request with neither username
\* nor a parsable IP has got the no-default-username error response, and
\* alice's request with the same IP the invalid-IP one.
C17_Witness ==
    \E p \in Procs : \E q \in Procs \ {p} :
        /\ frame[p].d = [role |-> "web", username |-> "", ip |-> "bogus"]
        /\ frame[q].d = [role |-> "web", username |-> "alice", ip |-> "bogus"]
        /\ "web" \in DOMAIN roleStore /\ roleStore["web"].DefaultUser = ""
        /\ ErrorResponded(p,
              "No default username registered. Use 'username' option")
        /\ ErrorResponded(q, "Invalid IP")

\* C18: on the OTP branch a persisted entry and a success response go
\* together.  A request whose Put succeeded has its response built with the
\* OTP it Put under, has only the lease lookup left, which it can always
\* take and which cannot fail it, and once returned it has returned that
\* success response; a request that returned a success response for an otp
\* role has made a successful Put; a request that returned an error
\* response or an internal error has made no successful Put, and every
\* entry in storage is the binding of a request whose Put succeeded (a
\* failed Put leaves none).
C18_EntryIffSuccess ==
    /\ \A p \in Procs :
          LET put == HasCall(p, "putOTP", "ok")
          IN
          /\ put
                => /\ pc[p] \in {"lease", "done"}
                   /\ pc[p] = "lease" => ENABLED ApplyLease(p)
                   /\ frame[p].reterr = ""
                   /\ frame[p].result # <<>>
                   /\ ~frame[p].result[1].IsError
                   /\ frame[p].result[1].Data.key = frame[p].otp
                   /\ SaltID(frame[p].result[1].Data.key) = frame[p].otpSalted
                   /\ frame[p].otpSalted \in DOMAIN otpStore
                   /\ Done(p) => Succeeded(p)
          /\ (Succeeded(p) /\ frame[p].role[1].KeyType = KeyTypeOTP) => put
          /\ (Done(p) /\ ~Succeeded(p))
                => /\ ~put
                   /\ frame[p].result = <<>> \/ frame[p].result[1].IsError
                   /\ OtherWriters(p, frame[p].otpSalted) = {}
                         => frame[p].otpSalted \notin DOMAIN otpStore
    /\ \A k \in DOMAIN otpStore :
          \E p \in Procs :
              /\ HasCall(p, "putOTP", "ok")
              /\ frame[p].otpSalted = k
              /\ otpStore[k] = Binding(p)

\* One request has returned its OTP and its entry is the only one in
\* storage; the other, whose Put under another key failed, has returned an
\* internal error and left no entry.
C18_Witness ==
    \E p \in Procs : \E q \in Procs \ {p} :
        /\ Succeeded(p) /\ HasCall(p, "putOTP", "ok")
        /\ InternalError(q) /\ HasCall(q, "putOTP", "err")
        /\ frame[q].otpSalted # frame[p].otpSalted
        /\ DOMAIN otpStore = {frame[p].otpSalted}
        /\ otpStore[frame[p].otpSalted] = Binding(p)

====
